---- MODULE Spec2Model ----
(***************************************************************************)
(* Pagination and filtering layer of the P and M admin console.            *)
(*                                                                         *)
(* Two controllers are modelled over one document collection:              *)
(*   - useCustomerData (src/src/hooks/useCustomerData.js), driven by the   *)
(*     Customers page (src/unnamed/part_009) and its CustomerTable         *)
(*     (src/unnamed/part_007): fetch-all, client-side filter and slice;    *)
(*   - useCollectionWithPaginationInCursors (src/unnamed/part_006):        *)
(*     cursor based paging with a count query and a ledger of cursors.     *)
(* A view mounts exactly one of them; `hook` records which.  A React       *)
(* event handler together with the re-render and the effects it causes is  *)
(* one atomic step; every awaited gateway call is a request in flight that *)
(* resolves in a later step, in any order.                                 *)
(*                                                                         *)
(* Spec is the life of a mounted view.  SpecUnmount adds the unmount of    *)
(* the view.  SpecFiltering runs filter edits with raw input values and    *)
(* calls of customerService.getCustomers                                   *)
(* (src/src/components/customers/EmptyJobsState.jsx) over a collection     *)
(* that does not change.  SpecJobs runs interleaved calls of jobService    *)
(* (src/src/services/jobService.js), SpecRecords the customer create,      *)
(* update, delete and get of the hook and of customerService, and          *)
(* SpecInvoices the two reads of invoiceService                            *)
(* (src/src/services/invoiceService.js) over any small invoices            *)
(* collection.                                                             *)
(***************************************************************************)
EXTENDS Integers, Sequences, FiniteSets, TLC

\* ------------------------------------------------------------------ bounds
MaxRecords == 5      \* document ids are 1..MaxRecords
PageSize == 2        \* page size of the mounted hook (pageSize / size)
MaxInflight == 2     \* reads in flight at the same time
MaxWrites == 1       \* collection mutations per behaviour
MaxLedger == 4       \* entries the ledger is let grow to
MaxRenders == 2      \* renders with new props (or a new refreshTrigger)
MaxFailures == 1     \* gateway reads that fail per behaviour

Ids == 1..MaxRecords

UCD == "useCustomerData"
SVC == "customerService"
JOB == "jobService"
CUR == "useCollectionWithPaginationInCursors"

\* ----------------------------------------------------------------- strings
\* A string is a sequence of one-character strings.
Lower(c) ==
  CASE c = "A" -> "a"
    [] c = "B" -> "b"
    [] c = "C" -> "c"
    [] c = "U" -> "u"
    [] OTHER -> c

\* String.prototype.toLowerCase
ToLowerCase(s) == [i \in 1..Len(s) |-> Lower(s[i])]

RECURSIVE Trim(_)
\* String.prototype.trim
Trim(s) ==
  IF s = <<>> THEN s
  ELSE IF Head(s) = " " THEN Trim(Tail(s))
  ELSE IF s[Len(s)] = " " THEN Trim(SubSeq(s, 1, Len(s) - 1))
  ELSE s

\* String.prototype.includes
Includes(s, t) ==
  \E i \in 0..(Len(s) - Len(t)) : SubSeq(s, i + 1, i + Len(t)) = t

StrUnnamed ==
  <<"U","n","n","a","m","e","d"," ","C","u","s","t","o","m","e","r">>

\* --------------------------------------------------------------- documents
NoDoc == [name |-> <<"-">>, phone |-> <<"-">>, location |-> <<"-">>,
          postCode |-> <<"-">>, absent |-> TRUE]

Doc(n, p, l, c) ==
  [name |-> n, phone |-> p, location |-> l, postCode |-> c, absent |-> FALSE]

DocAl == Doc(<<"A","l">>, <<"1">>, <<"C">>, <<"7">>)
DocBo == Doc(<<"B","o">>, <<"2">>, <<"c">>, <<"8">>)

\* the documents a user saves in this model
WriteDocs == {DocAl, DocBo}

NoFilters == [name |-> <<>>, phone |-> <<>>, location |-> <<>>, postCode |-> <<>>]
FilterA == [NoFilters EXCEPT !.name = <<"a">>]

\* the filter sets a user types in this model
FilterSets == {NoFilters, FilterA}

\* ------------------------------------------------------------------- state
VARIABLES
  hook,         \* which controller the view mounted
  mounted,      \* the view that owns the controller is still mounted
  svc,          \* the customerService.getCustomers call under way, if any
  jobs,         \* the jobs collection: job id -> document
  jobCalls,     \* jobService calls awaiting the gateway, in call order
  jobResult,    \* the jobService call that completed last, and its outcome
  records,      \* the customer collections: collection name -> id -> document
  custCall,     \* the customer create/update/delete/get awaiting the gateway
  custResult,   \* the customer call that completed last, and its outcome
  invoices,     \* the invoices collection: invoice id -> document
  invCall,      \* the invoiceService call awaiting the gateway, if any
  invResult,    \* what the last invoiceService call resolved or rejected with
  store,        \* the collection: id -> document or NoDoc
  writes,       \* mutations performed so far (bounded)
  renders,      \* renders with new props so far (bounded)
  failures,     \* failed gateway reads so far (bounded)
  trip,         \* history: a next() / previous() round trip under way
  pure,         \* history: nothing but the mount load and next() so far
  \* --- useCustomerData
  filters, customers, loading, error, currentPage, totalItems, totalPages,
  inflight,     \* fetchCustomers runs awaiting getDocs, in initiation order
  timer,        \* the armed debounce timeout of the Customers page
  write,        \* a create/update/delete awaiting its acknowledgment
  lastInit,     \* history: parameters of the latest-initiated fetchCustomers
  \* --- useCollectionWithPaginationInCursors
  whereQueries, orderByQueries, size, isDependantLoading,   \* props
  data, cLoading, cError, page, count, pagesNumber,
  firstVisibleRef, lastVisibleRef,
  pageStateRef, \* the ledger: one {first, last} entry per page
  reads,        \* gateway reads awaiting their response, in initiation order
  emptyTurn     \* history: the hook's last step was a page turn completing
                \* with an empty query result ("next", "prev"), else "none"

ucdVars == <<filters, customers, loading, error, currentPage, totalItems,
             totalPages, inflight, timer, write, lastInit>>
curVars == <<whereQueries, orderByQueries, size, isDependantLoading, data,
             cLoading, cError, page, count, pagesNumber, firstVisibleRef,
             lastVisibleRef, pageStateRef, reads>>
svcVars == <<jobs, jobCalls, jobResult, records, custCall, custResult,
             invoices, invCall, invResult>>
vars == <<hook, mounted, svc, svcVars, emptyTurn, store, writes, renders, failures, trip, pure, ucdVars,
          curVars>>

NULL == "null"
FetchFailed == "Failed to fetch customers"

\* the guard p >= n, one page too late
PastLastPage(p, n) == p >= n

\* page p is the last of n pages: next() does nothing
AtLastPage(p, n) == p >= n - 1

\* Math.ceil(n / d)
Ceil(n, d) == (n + d - 1) \div d

Present(s) == {i \in Ids : ~s[i].absent}

RECURSIVE Ascending(_)
\* ids of a set in document-id order
Ascending(S) ==
  IF S = {} THEN <<>>
  ELSE LET m == CHOOSE x \in S : \A y \in S : x <= y
       IN <<m>> \o Ascending(S \ {m})

\* Array.prototype.slice(a, b) with 0-based, end-exclusive indices
Slice(s, a, b) == SubSeq(s, a + 1, IF b < Len(s) THEN b ELSE Len(s))

\* ----------------------------------------------------------------- history
\* a round trip starts with an accepted next() while nothing else is under
\* way (`fresh` records whether the visible list was then the page pageIndex
\* of the current query); any other step than the completion of that next(), the previous() that
\* follows it at once and its completion abandons the trip; it is `done` in
\* the state in which that previous() has completed
TripStart(ok, fresh, list, index) ==
  trip' = IF ok
          THEN <<[stage |-> "next", fresh |-> fresh, list |-> list,
                  index |-> index]>>
          ELSE <<>>
TripStep(from, to, ok) ==
  trip' = IF trip # <<>> /\ trip[1].stage = from /\ ok
          THEN <<[trip[1] EXCEPT !.stage = to]>>
          ELSE <<>>
TripDone == trip # <<>> /\ trip[1].stage = "done"

\* ---------------------------------------------------------------- jobService
MaxJobs == 1         \* documents the jobs collection ever holds
MaxJobCalls == 2     \* jobService calls awaiting the gateway at once
JobIds == 1..MaxJobs
JobCustomers == {"c1", "c2"}

\* a field that an object does not carry
NoField == "absent"
NoDate == 0

\* a document of the jobs collection, of which the model keeps the customerId
\* and the date; `createdFor` is history: the customerId argument of the
\* createJob that stored it
NoJob == [state |-> "none", customerId |-> NoField, date |-> NoDate,
          createdFor |-> NoField]
DeletedJob == [NoJob EXCEPT !.state = "deleted"]

\* the jobData object handed to createJob / updateJob
JobData(c, d) == [customerId |-> c, date |-> d]
NoJobData == JobData(NoField, NoDate)

\* what a caller hands to createJob: the form's data, the same with a stray
\* customerId, and an object without a date
CreateDatas ==
  {JobData(NoField, 1), JobData("c2", 2), JobData(NoField, NoDate)}

\* what a caller hands to updateJob: a new date, or an object that carries a
\* customerId
UpdateDatas == {JobData(NoField, 2), JobData("c2", NoDate)}

JobCall(op, c, j, d, awaits) ==
  [op |-> op, customerId |-> c, jobId |-> j, data |-> d, awaits |-> awaits]

\* what a jobService call resolved to or threw
Outcome(kind, j, list) == [kind |-> kind, id |-> j, list |-> list]

\* ----------------------------------------------------------- customer records
MaxCustomerDocs == 2   \* documents the customer collections ever hold
RecordIds == 1..MaxCustomerDocs

\* collection(db, "customer") of useCustomerData, and CUSTOMERS_COLLECTION
HookCollection == "customer"
CUSTOMERS_COLLECTION == "customers"
CustomerCollections == {HookCollection, CUSTOMERS_COLLECTION}

\* a customer document, of which the model keeps name and nameLower
NoRecord == [state |-> "none", hasName |-> FALSE, name |-> <<>>,
             nameLower |-> <<>>]
DeletedRecord == [NoRecord EXCEPT !.state = "deleted"]

\* the customerData object handed to createCustomer / updateCustomer: with a
\* name, or without the name field
CustomerData(has, n) == [hasName |-> has, name |-> n]
NoCustomerData == CustomerData(FALSE, <<>>)
CustomerDatas ==
  {CustomerData(TRUE, <<"A", "l">>), CustomerData(TRUE, <<"B", "o">>),
   NoCustomerData}

\* no service call was made
\* ------------------------------------------------------------ invoiceService
MaxInvoices == 2
InvoiceIds == 1..MaxInvoices
\* customerId arguments: two customers and a missing id
NoCustomerId == ""
InvoiceCustomers == {"c1", "c2"}
\* new Date() at the call; due dates are days before and after it
Today == 2
DueDates == {NoDate, 1, 3}
NoInvoice == [state |-> "none", customerId |-> NoField, status |-> NoField,
              dueDate |-> NoDate]
Invoice(c, st, due) == [state |-> "live", customerId |-> c, status |-> st,
                        dueDate |-> due]
InvoiceDocs ==
  {NoInvoice} \cup {Invoice(c, st, due) : c \in InvoiceCustomers,
                                         st \in {"paid", "pending"},
                                         due \in DueDates}

IdleServices ==
  /\ jobs = [j \in JobIds |-> NoJob]
  /\ jobCalls = <<>>
  /\ jobResult = <<>>
  /\ records = [k \in CustomerCollections |-> [i \in RecordIds |-> NoRecord]]
  /\ custCall = <<>>
  /\ custResult = <<>>
  /\ invoices = [i \in InvoiceIds |-> NoInvoice]
  /\ invCall = <<>>
  /\ invResult = <<>>

\* ---------------------------------------------------------- useCustomerData
\* the customer object built from a document (with fallbacks)
FormatCustomer(id, d) ==
  [id |-> id,
   name |-> IF d.name = <<>> THEN StrUnnamed ELSE d.name,
   phone |-> d.phone, location |-> d.location, postCode |-> d.postCode]

\* getDocs(query(customersRef)) mapped to customer objects
CustomerList(s) ==
  LET ids == Ascending(Present(s))
  IN [k \in 1..Len(ids) |-> FormatCustomer(ids[k], s[ids[k]])]

\* the client-side filter chain of fetchCustomers
Filtered(list, f) ==
  LET byName(c) == Includes(ToLowerCase(c.name), ToLowerCase(f.name))
      byPhone(c) == Includes(c.phone, f.phone)
      byLoc(c) == Includes(ToLowerCase(c.location), ToLowerCase(f.location))
      byPost(c) == Includes(c.postCode, f.postCode)
      l1 == IF f.name # <<>> /\ Trim(f.name) # <<>>
            THEN SelectSeq(list, byName) ELSE list
      l2 == IF f.phone # <<>> /\ Trim(f.phone) # <<>>
            THEN SelectSeq(l1, byPhone) ELSE l1
      l3 == IF f.location # <<>> /\ Trim(f.location) # <<>>
            THEN SelectSeq(l2, byLoc) ELSE l2
  IN IF f.postCode # <<>> /\ Trim(f.postCode) # <<>>
     THEN SelectSeq(l3, byPost) ELSE l3

\* the slice of the filtered list shown for page p
Paginated(list, p) == Slice(list, p * PageSize, p * PageSize + PageSize)

Req(f, p) == [filters |-> f, page |-> p]

\* the refresh after a write; `sole` and `pages` are history: the write
\* deleted the only record of the last page, of `pages` pages
Refresh(w) == [filters |-> w.filters, page |-> w.page, sole |-> w.sole,
               pages |-> w.pages]

RemoveAt(s, i) == SubSeq(s, 1, i - 1) \o SubSeq(s, i + 1, Len(s))

\* fetchCustomers up to its await: setLoading(true) and the getDocs call
StartFetch(f, p) ==
  /\ loading' = TRUE
  /\ inflight' = Append(inflight, Req(f, p))
  /\ lastInit' = <<Req(f, p)>>

\* the collections a view is mounted over in this model
StoreOf(present) ==
  [i \in Ids |-> IF i \notin present THEN NoDoc
                 ELSE IF i % 2 = 1 THEN DocAl ELSE DocBo]
InitStores(h) ==
  IF h = UCD THEN {StoreOf(Ids \ {2, 4}), StoreOf(Ids \ {2})}
  ELSE {StoreOf(Ids \ {2})}

\* useCustomerData after its first render and effects: one fetch in flight,
\* the page's debounce timeout armed
MountedUCD ==
  /\ filters = NoFilters
  /\ customers = <<>>
  /\ loading = TRUE
  /\ error = NULL
  /\ currentPage = 0
  /\ totalItems = 0
  /\ totalPages = 0
  /\ inflight = <<Req(NoFilters, 0)>>
  /\ timer = <<Req(NoFilters, 0)>>
  /\ write = <<>>
  /\ lastInit = <<Req(NoFilters, 0)>>

\* the hook is not mounted
UnmountedUCD ==
  /\ filters = NoFilters
  /\ customers = <<>>
  /\ loading = FALSE
  /\ error = NULL
  /\ currentPage = 0
  /\ totalItems = 0
  /\ totalPages = 0
  /\ inflight = <<>>
  /\ timer = <<>>
  /\ write = <<>>
  /\ lastInit = <<>>

\* Customers: setFilters from SearchFilters / clearFilters; the hook copies
\* the new object into its own state, fetchCustomers is re-created and run,
\* and the page's debounce effect re-arms its timeout
SetFilters(f) ==
  /\ hook = UCD
  /\ mounted
  /\ Len(inflight) < MaxInflight
  /\ filters' = f
  /\ StartFetch(f, currentPage)
  /\ timer' = <<Req(f, currentPage)>>
  /\ UNCHANGED <<renders, failures, curVars, hook, mounted, svc, svcVars, emptyTurn, store, writes, customers, error, currentPage,
                 totalItems, totalPages, write>>
  /\ trip' = <<>>
  /\ pure' = FALSE

\* the debounce timeout fires: refreshData()
TimerFire ==
  /\ hook = UCD
  /\ timer # <<>>
  /\ Len(inflight) < MaxInflight
  /\ StartFetch(timer[1].filters, timer[1].page)
  /\ timer' = <<>>
  /\ UNCHANGED <<renders, failures, curVars, hook, mounted, svc, svcVars, emptyTurn, store, writes, filters, customers, error, currentPage,
                 totalItems, totalPages, write>>
  /\ trip' = <<>>
  /\ UNCHANGED pure

\* getDocs of the i-th fetch in flight resolves; the rest of fetchCustomers
FetchResolve(i) ==
  /\ hook = UCD
  /\ i \in 1..Len(inflight)
  /\ LET r == inflight[i]
         filteredList == Filtered(CustomerList(store), r.filters)
     IN /\ customers' = Paginated(filteredList, r.page)
        /\ totalItems' = Len(filteredList)
        /\ totalPages' = Ceil(Len(filteredList), PageSize)
        /\ error' = NULL
  /\ loading' = FALSE
  /\ inflight' = RemoveAt(inflight, i)
  /\ UNCHANGED <<renders, failures, curVars, hook, mounted, svc, svcVars, emptyTurn, store, writes, filters, currentPage, timer, write,
                 lastInit>>
  /\ IF trip # <<>> /\ trip[1].stage = "next"
     THEN TripStep("next", "mid", TRUE)
     ELSE TripStep("prev", "done", TRUE)
  /\ UNCHANGED pure

\* getDocs of the i-th fetch in flight rejects
FetchReject(i) ==
  /\ hook = UCD
  /\ failures < MaxFailures
  /\ failures' = failures + 1
  /\ i \in 1..Len(inflight)
  /\ error' = FetchFailed
  /\ customers' = <<>>
  /\ loading' = FALSE
  /\ inflight' = RemoveAt(inflight, i)
  /\ UNCHANGED <<renders, curVars, hook, mounted, svc, svcVars, emptyTurn, store, writes, filters, currentPage, totalItems,
                 totalPages, timer, write, lastInit>>
  /\ trip' = <<>>
  /\ pure' = FALSE

\* onNextPage; a new currentPage re-creates fetchCustomers, which the hook's
\* effect runs, and re-creates refreshData, which re-arms the page's timeout
onNextPage ==
  /\ hook = UCD
  /\ mounted
  /\ Len(inflight) < MaxInflight
  /\ IF ~AtLastPage(currentPage, totalPages)
     THEN /\ currentPage' = currentPage + 1
          /\ StartFetch(filters, currentPage + 1)
          /\ timer' = <<Req(filters, currentPage + 1)>>
     ELSE UNCHANGED <<currentPage, loading, inflight, lastInit, timer>>
  /\ UNCHANGED <<renders, failures, curVars, hook, mounted, svc, svcVars, emptyTurn, store, writes, filters, customers, error, totalItems,
                 totalPages, write>>
  /\ TripStart(currentPage < totalPages - 1 /\ inflight = <<>> /\ write = <<>>,
               customers = Paginated(Filtered(CustomerList(store), filters),
                                     currentPage),
               customers, currentPage)
  /\ UNCHANGED pure

\* onPrevPage
onPrevPage ==
  /\ hook = UCD
  /\ mounted
  /\ Len(inflight) < MaxInflight
  /\ IF currentPage > 0
     THEN /\ currentPage' = currentPage - 1
          /\ StartFetch(filters, currentPage - 1)
          /\ timer' = <<Req(filters, currentPage - 1)>>
     ELSE UNCHANGED <<currentPage, loading, inflight, lastInit, timer>>
  /\ UNCHANGED <<renders, failures, curVars, hook, mounted, svc, svcVars, emptyTurn, store, writes, filters, customers, error, totalItems,
                 totalPages, write>>
  /\ TripStep("mid", "prev", currentPage > 0 /\ inflight = <<>> /\ write = <<>>)
  /\ pure' = FALSE

\* the pagination buttons of CustomerTable are rendered and enabled
TableShown == ~loading /\ Len(customers) > 0
PaginationShown == TableShown /\ totalPages > 1
NextButtonEnabled == PaginationShown /\ ~AtLastPage(currentPage, totalPages)
PrevButtonEnabled == PaginationShown /\ ~(currentPage = 0)

\* the Next / Previous buttons of CustomerTable are clicked
ClickNext == NextButtonEnabled /\ onNextPage
ClickPrevious == PrevButtonEnabled /\ onPrevPage

DisplayedIds == {customers[k].id : k \in 1..Len(customers)}

\* a write handler of the Customers page up to its await; the handler keeps
\* the refreshData of the render it was created in
WriteReq(op, id, d) ==
  [op |-> op, id |-> id, doc |-> d, filters |-> filters, page |-> currentPage,
   sole |-> op = "delete" /\ Len(customers) = 1
              /\ currentPage = totalPages - 1,       \* history
   pages |-> totalPages]                              \* history

\* handleSaveCustomer for a new customer: createCustomer -> addDoc
handleSaveCustomerCreate(id, d) ==
  /\ hook = UCD
  /\ mounted
  /\ write = <<>>
  /\ writes < MaxWrites
  /\ store[id].absent
  /\ write' = <<WriteReq("create", id, d)>>
  /\ writes' = writes + 1
  /\ UNCHANGED <<renders, failures, curVars, hook, mounted, svc, svcVars, emptyTurn, store, filters, customers, loading, error,
                 currentPage, totalItems, totalPages, inflight, timer,
                 lastInit>>
  /\ trip' = <<>>
  /\ pure' = FALSE

\* handleSaveCustomer for a listed customer: updateCustomer -> updateDoc
handleSaveCustomerUpdate(id, d) ==
  /\ hook = UCD
  /\ mounted
  /\ write = <<>>
  /\ writes < MaxWrites
  /\ TableShown
  /\ id \in DisplayedIds
  /\ write' = <<WriteReq("update", id, d)>>
  /\ writes' = writes + 1
  /\ UNCHANGED <<renders, failures, curVars, hook, mounted, svc, svcVars, emptyTurn, store, filters, customers, loading, error,
                 currentPage, totalItems, totalPages, inflight, timer,
                 lastInit>>
  /\ trip' = <<>>
  /\ pure' = FALSE

\* handleDeleteCustomer, confirmed: deleteCustomer -> deleteDoc
handleDeleteCustomer(id) ==
  /\ hook = UCD
  /\ mounted
  /\ write = <<>>
  /\ writes < MaxWrites
  /\ TableShown
  /\ id \in DisplayedIds
  /\ write' = <<WriteReq("delete", id, NoDoc)>>
  /\ writes' = writes + 1
  /\ UNCHANGED <<renders, failures, curVars, hook, mounted, svc, svcVars, emptyTurn, store, filters, customers, loading, error,
                 currentPage, totalItems, totalPages, inflight, timer,
                 lastInit>>
  /\ trip' = <<>>
  /\ pure' = FALSE

\* the document the gateway holds after an acknowledged write
Written(s, w) ==
  IF w.op = "delete" THEN [s EXCEPT ![w.id] = NoDoc]
  ELSE [s EXCEPT ![w.id] = w.doc]

\* the gateway acknowledges the write; the handler then calls refreshData()
WriteAck ==
  /\ hook = UCD
  /\ write # <<>>
  /\ Len(inflight) < MaxInflight
  /\ write[1].op = "update" => ~store[write[1].id].absent
  /\ store' = Written(store, write[1])
  /\ loading' = TRUE
  /\ inflight' = Append(inflight, Refresh(write[1]))
  /\ lastInit' = <<Req(write[1].filters, write[1].page)>>
  /\ write' = <<>>
  /\ UNCHANGED <<renders, failures, curVars, hook, mounted, svc, svcVars, emptyTurn, writes, filters, customers, error, currentPage,
                 totalItems, totalPages, timer>>
  /\ trip' = <<>>
  /\ pure' = FALSE

\* the gateway rejects the write; the handler reports it and does not refresh
WriteReject ==
  /\ hook = UCD
  /\ write # <<>>
  /\ write' = <<>>
  /\ UNCHANGED <<renders, failures, curVars, hook, mounted, svc, svcVars, emptyTurn, store, writes, filters, customers, loading, error,
                 currentPage, totalItems, totalPages, inflight, timer,
                 lastInit>>
  /\ trip' = <<>>
  /\ pure' = FALSE


\* ------------------------------------- useCollectionWithPaginationInCursors
\* a document snapshot: the id and the data read
Snap(id, d) == [id |-> id, doc |-> d]

CharCode(c) ==
  CASE c = " " -> 0
    [] c = "-" -> 1
    [] c = "1" -> 2
    [] c = "2" -> 3
    [] c = "7" -> 4
    [] c = "8" -> 5
    [] c = "A" -> 6
    [] c = "B" -> 7
    [] c = "C" -> 8
    [] c = "a" -> 9
    [] c = "b" -> 10
    [] c = "c" -> 11
    [] c = "l" -> 12
    [] c = "o" -> 13
    [] OTHER -> 14

RECURSIVE StrLess(_, _)
\* the gateway's ordering of string values
StrLess(a, b) ==
  IF b = <<>> THEN FALSE
  ELSE IF a = <<>> THEN TRUE
  ELSE IF Head(a) # Head(b) THEN CharCode(Head(a)) < CharCode(Head(b))
  ELSE StrLess(Tail(a), Tail(b))

\* where(field, operator, value) on a document
Matches(d, w) == \A k \in 1..Len(w) : d[w[k].field] = w[k].value

\* snapshot a strictly precedes snapshot b under the orderBy clauses o
\* (document id order when there is none; ties by id in the same direction)
Precedes(a, b, o) ==
  IF o = <<>> THEN a.id < b.id
  ELSE LET ka == a.doc[o[1].field]
           kb == b.doc[o[1].field]
       IN IF o[1].direction = "asc"
          THEN StrLess(ka, kb) \/ (ka = kb /\ a.id < b.id)
          ELSE StrLess(kb, ka) \/ (ka = kb /\ a.id > b.id)

RECURSIVE SortSnaps(_, _)
SortSnaps(S, o) ==
  IF S = {} THEN <<>>
  ELSE LET m == CHOOSE x \in S : \A y \in S \ {x} : Precedes(x, y, o)
       IN <<m>> \o SortSnaps(S \ {m}, o)

\* the result of the where and orderBy clauses on the collection
QueryDocs(s, w, o) ==
  SortSnaps({Snap(i, s[i]) : i \in {j \in Present(s) : Matches(s[j], w)}}, o)

\* limit(n)
Limit(q, n) == SubSeq(q, 1, IF n < Len(q) THEN n ELSE Len(q))

\* limitToLast(n)
LimitToLast(q, n) == SubSeq(q, IF Len(q) > n THEN Len(q) - n + 1 ELSE 1, Len(q))

\* startAfter(cursor); a null cursor stands before every document
StartAfter(q, c, o) ==
  IF c = <<>> THEN q
  ELSE LET after(x) == Precedes(c[1], x, o) IN SelectSeq(q, after)

\* endBefore(cursor); nothing stands before a null cursor
EndBefore(q, c, o) ==
  IF c = <<>> THEN <<>>
  ELSE LET before(x) == Precedes(x, c[1], o) IN SelectSeq(q, before)

\* a cursor call with a null cursor and no orderBy clause throws
CursorThrows(c, o) == c = <<>> /\ o = <<>>

\* getCountFromServer
CountDocs(s, w) == Cardinality({j \in Present(s) : Matches(s[j], w)})

Entry(q) == [first |-> q[1], last |-> q[Len(q)]]

QueryFailed == "QueryFailed"

Read(kind, cursor) ==
  [kind |-> kind, where |-> whereQueries, order |-> orderByQueries,
   size |-> size, page |-> page, cursor |-> cursor, changed |-> FALSE,
   failed |-> FALSE]

WherePhone2 == <<[field |-> "phone", operator |-> "==", value |-> <<"2">>]>>
OrderNameDesc == <<[field |-> "name", direction |-> "desc"]>>

\* the props a parent passes in this model
Props(w, o, n, dep) ==
  [where |-> w, order |-> o, size |-> n, isDependantLoading |-> dep]
PropSets ==
  { Props(<<>>, <<>>, PageSize, FALSE),
    Props(WherePhone2, OrderNameDesc, PageSize, FALSE),
    Props(<<>>, <<>>, PageSize + 1, FALSE),
    Props(<<>>, <<>>, PageSize, TRUE) }

\* the documents of page p of a query result, n to a page
PageOf(q, n, p) == Slice(q, p * n, p * n + n)

\* the hook after its first render and effect: fetchData awaits the count
MountedCUR ==
  /\ whereQueries = <<>>
  /\ orderByQueries = <<>>
  /\ size = PageSize
  /\ isDependantLoading = FALSE
  /\ data = <<>>
  /\ cLoading = TRUE
  /\ cError = NULL
  /\ page = 0
  /\ count = 0
  /\ pagesNumber = 0
  /\ firstVisibleRef = <<>>
  /\ lastVisibleRef = <<>>
  /\ pageStateRef = <<>>
  /\ reads = <<[kind |-> "count", where |-> <<>>, order |-> <<>>,
                size |-> PageSize, page |-> 0, cursor |-> <<>>,
                changed |-> FALSE, failed |-> FALSE]>>

UnmountedCUR ==
  /\ whereQueries = <<>>
  /\ orderByQueries = <<>>
  /\ size = PageSize
  /\ isDependantLoading = FALSE
  /\ data = <<>>
  /\ cLoading = FALSE
  /\ cError = NULL
  /\ page = 0
  /\ count = 0
  /\ pagesNumber = 0
  /\ firstVisibleRef = <<>>
  /\ lastVisibleRef = <<>>
  /\ pageStateRef = <<>>
  /\ reads = <<>>

Init ==
  /\ hook \in {UCD, CUR}
  /\ mounted = TRUE
  /\ svc = <<>>
  /\ emptyTurn = "none"
  /\ IdleServices
  /\ store \in InitStores(hook)
  /\ writes = 0
  /\ renders = 0
  /\ failures = 0
  /\ trip = <<>>
  /\ pure = TRUE
  /\ IF hook = UCD THEN MountedUCD ELSE UnmountedUCD
  /\ IF hook = CUR THEN MountedCUR ELSE UnmountedCUR

\* fetchData awaiting its count; `changed` and `failed` are history: the
\* render that started it changed the where or orderBy clauses, its count
\* was rejected
Load(w, o, n) ==
  [kind |-> "count", where |-> w, order |-> o, size |-> n, page |-> 0,
   cursor |-> <<>>, changed |-> w # whereQueries \/ o # orderByQueries,
   failed |-> FALSE]

\* a render with new props (or a new refreshTrigger) re-runs the effect:
\* fetchData up to the await of getCollectionCount's getCountFromServer
fetchData(w, o, n, dep) ==
  /\ hook = CUR
  /\ emptyTurn' = "none"
  /\ mounted
  /\ renders < MaxRenders
  /\ renders' = renders + 1
  /\ whereQueries' = w
  /\ orderByQueries' = o
  /\ size' = n
  /\ isDependantLoading' = dep
  /\ IF dep
     THEN UNCHANGED <<cLoading, cError, reads>>
     ELSE /\ Len(reads) < MaxInflight
          /\ cLoading' = TRUE
          /\ cError' = NULL
          /\ reads' = Append(reads, Load(w, o, n))
  /\ UNCHANGED <<failures, ucdVars, hook, mounted, svc, svcVars, store, writes, data, page, count,
                 pagesNumber, firstVisibleRef, lastVisibleRef, pageStateRef>>
  /\ trip' = <<>>
  /\ pure' = FALSE

\* getCountFromServer resolves: setCount, setPagesNumber; fetchData goes on
\* to issue its getDocs
CountResolve(i) ==
  /\ hook = CUR
  /\ emptyTurn' = "none"
  /\ i \in 1..Len(reads)
  /\ reads[i].kind = "count"
  /\ LET r == reads[i]
         totalCount == CountDocs(store, r.where)
     IN /\ count' = totalCount
        /\ pagesNumber' = Ceil(totalCount, r.size)
        /\ reads' = [reads EXCEPT ![i].kind = "docs"]
  /\ UNCHANGED <<renders, failures, ucdVars, hook, mounted, svc, svcVars, store, writes, whereQueries, orderByQueries,
                 size, isDependantLoading, data, cLoading, cError, page,
                 firstVisibleRef, lastVisibleRef, pageStateRef>>
  /\ trip' = <<>>
  /\ UNCHANGED pure

\* getCountFromServer rejects: getCollectionCount catches, sets the error and
\* returns zeros; fetchData goes on to issue its getDocs
CountReject(i) ==
  /\ hook = CUR
  /\ emptyTurn' = "none"
  /\ failures < MaxFailures
  /\ failures' = failures + 1
  /\ i \in 1..Len(reads)
  /\ reads[i].kind = "count"
  /\ cError' = QueryFailed
  /\ reads' = [reads EXCEPT ![i].kind = "docs", ![i].failed = TRUE]
  /\ UNCHANGED <<renders, ucdVars, hook, mounted, svc, svcVars, store, writes, whereQueries, orderByQueries,
                 size, isDependantLoading, data, cLoading, page, count,
                 pagesNumber, firstVisibleRef, lastVisibleRef, pageStateRef>>
  /\ trip' = <<>>
  /\ pure' = FALSE

\* the getDocs of fetchData resolves
DocsResolve(i) ==
  /\ hook = CUR
  /\ emptyTurn' = "none"
  /\ i \in 1..Len(reads)
  /\ reads[i].kind = "docs"
  /\ LET r == reads[i]
         docs == Limit(QueryDocs(store, r.where, r.order), r.size)
     IN IF docs # <<>>
        THEN /\ firstVisibleRef' = <<docs[1]>>
             /\ lastVisibleRef' = <<docs[Len(docs)]>>
             /\ pageStateRef' = <<Entry(docs)>>
             /\ data' = docs
        ELSE /\ data' = <<>>
             /\ UNCHANGED <<firstVisibleRef, lastVisibleRef, pageStateRef>>
  /\ cLoading' = FALSE
  /\ reads' = RemoveAt(reads, i)
  /\ UNCHANGED <<renders, failures, ucdVars, hook, mounted, svc, svcVars, store, writes, whereQueries, orderByQueries,
                 size, isDependantLoading, cError, page, count, pagesNumber>>
  /\ trip' = <<>>
  /\ UNCHANGED pure

\* a getDocs of fetchData, HandleGetNextPage or HandleGetPreviousPage rejects
ReadReject(i) ==
  /\ hook = CUR
  /\ emptyTurn' = "none"
  /\ failures < MaxFailures
  /\ failures' = failures + 1
  /\ i \in 1..Len(reads)
  /\ reads[i].kind # "count"
  /\ cError' = QueryFailed
  /\ cLoading' = FALSE
  /\ reads' = RemoveAt(reads, i)
  /\ UNCHANGED <<renders, ucdVars, hook, mounted, svc, svcVars, store, writes, whereQueries, orderByQueries,
                 size, isDependantLoading, data, page, count, pagesNumber,
                 firstVisibleRef, lastVisibleRef, pageStateRef>>
  /\ trip' = <<>>
  /\ pure' = FALSE

\* an empty snapshot handled as fetchData handles it: setData([])
ClearPage ==
  /\ data' = <<>>
  /\ UNCHANGED <<firstVisibleRef, lastVisibleRef, pageStateRef, page>>

\* a page turn whose snapshot is empty skips the whole if block: no ref is
\* written and neither setData nor setPage is called
KeepPage ==
  UNCHANGED <<firstVisibleRef, lastVisibleRef, pageStateRef, data, page>>

\* HandleGetNextPage up to its await
HandleGetNextPage ==
  /\ hook = CUR
  /\ emptyTurn' = "none"
  /\ mounted
  /\ Len(reads) < MaxInflight
  /\ IF cLoading \/ AtLastPage(page, pagesNumber)
     THEN UNCHANGED <<cLoading, cError, reads>>
     ELSE IF CursorThrows(lastVisibleRef, orderByQueries)
     THEN /\ cError' = QueryFailed
          /\ cLoading' = FALSE
          /\ UNCHANGED reads
     ELSE /\ cLoading' = TRUE
          /\ reads' = Append(reads, Read("next", lastVisibleRef))
          /\ UNCHANGED cError
  /\ UNCHANGED <<renders, failures, ucdVars, hook, mounted, svc, svcVars, store, writes, whereQueries, orderByQueries,
                 size, isDependantLoading, data, page, count, pagesNumber,
                 firstVisibleRef, lastVisibleRef, pageStateRef>>
  /\ TripStart(reads' # reads /\ reads = <<>>,
               data = PageOf(QueryDocs(store, whereQueries, orderByQueries),
                             size, page),
               data, page)
  /\ UNCHANGED pure

\* the getDocs of HandleGetNextPage resolves
NextResolve(i) ==
  /\ hook = CUR
  /\ i \in 1..Len(reads)
  /\ reads[i].kind = "next"
  /\ Len(pageStateRef) < MaxLedger
  /\ LET r == reads[i]
         docs == Limit(StartAfter(QueryDocs(store, r.where, r.order),
                                  r.cursor, r.order), r.size)
     IN IF docs # <<>>
        THEN /\ firstVisibleRef' = <<docs[1]>>
             /\ lastVisibleRef' = <<docs[Len(docs)]>>
             /\ pageStateRef' = Append(pageStateRef, Entry(docs))
             /\ data' = docs
             /\ page' = r.page + 1
             /\ emptyTurn' = "none"
        ELSE /\ KeepPage
             /\ emptyTurn' = "next"
  /\ cLoading' = FALSE
  /\ reads' = RemoveAt(reads, i)
  /\ UNCHANGED <<renders, failures, ucdVars, hook, mounted, svc, svcVars, store, writes, whereQueries, orderByQueries,
                 size, isDependantLoading, cError, count, pagesNumber>>
  /\ TripStep("next", "mid", page' # page)
  /\ UNCHANGED pure

\* HandleGetPreviousPage up to its await
HandleGetPreviousPage ==
  /\ hook = CUR
  /\ emptyTurn' = "none"
  /\ mounted
  /\ Len(reads) < MaxInflight
  /\ IF cLoading \/ page <= 0
     THEN UNCHANGED <<cLoading, cError, reads>>
     ELSE IF page > 1 /\ CursorThrows(firstVisibleRef, orderByQueries)
     THEN /\ cError' = QueryFailed
          /\ cLoading' = FALSE
          /\ UNCHANGED reads
     ELSE /\ cLoading' = TRUE
          /\ reads' = Append(reads, Read("prev", firstVisibleRef))
          /\ UNCHANGED cError
  /\ UNCHANGED <<renders, failures, ucdVars, hook, mounted, svc, svcVars, store, writes, whereQueries, orderByQueries,
                 size, isDependantLoading, data, page, count, pagesNumber,
                 firstVisibleRef, lastVisibleRef, pageStateRef>>
  /\ TripStep("mid", "prev", reads' # reads /\ reads = <<>>)
  /\ pure' = FALSE

\* Array.prototype.pop on the ledger
Pop(s) == IF s = <<>> THEN s ELSE SubSeq(s, 1, Len(s) - 1)

\* the getDocs of HandleGetPreviousPage resolves
PrevResolve(i) ==
  /\ hook = CUR
  /\ i \in 1..Len(reads)
  /\ reads[i].kind = "prev"
  /\ LET r == reads[i]
         q == QueryDocs(store, r.where, r.order)
         docs == IF r.page > 1
                 THEN LimitToLast(EndBefore(q, r.cursor, r.order), r.size)
                 ELSE Limit(q, r.size)
     IN IF docs # <<>>
        THEN /\ firstVisibleRef' = <<docs[1]>>
             /\ lastVisibleRef' = <<docs[Len(docs)]>>
             /\ pageStateRef' = IF r.page > 1 THEN Pop(pageStateRef)
                                ELSE <<Entry(docs)>>
             /\ data' = docs
             /\ page' = r.page - 1
             /\ emptyTurn' = "none"
        ELSE /\ KeepPage
             /\ emptyTurn' = "prev"
  /\ cLoading' = FALSE
  /\ reads' = RemoveAt(reads, i)
  /\ UNCHANGED <<renders, failures, ucdVars, hook, mounted, svc, svcVars, store, writes, whereQueries, orderByQueries,
                 size, isDependantLoading, cError, count, pagesNumber>>
  /\ TripStep("prev", "done", page' # page)
  /\ pure' = FALSE

\* another client of the gateway deletes or adds a document of the collection
GatewayDelete(id) ==
  /\ hook = CUR
  /\ writes < MaxWrites
  /\ ~store[id].absent
  /\ store' = [store EXCEPT ![id] = NoDoc]
  /\ writes' = writes + 1
  /\ UNCHANGED <<renders, failures, ucdVars, curVars, hook, mounted, svc, svcVars, emptyTurn>>
  /\ trip' = <<>>
  /\ pure' = FALSE

GatewayCreate(id, d) ==
  /\ hook = CUR
  /\ writes < MaxWrites
  /\ store[id].absent
  /\ store' = [store EXCEPT ![id] = d]
  /\ writes' = writes + 1
  /\ UNCHANGED <<renders, failures, ucdVars, curVars, hook, mounted, svc, svcVars, emptyTurn>>
  /\ trip' = <<>>
  /\ pure' = FALSE

Next ==
  \/ \E f \in FilterSets : SetFilters(f)
  \/ TimerFire
  \/ ClickNext
  \/ ClickPrevious
  \/ \E id \in Ids, d \in WriteDocs : handleSaveCustomerCreate(id, d)
  \/ \E id \in Ids, d \in WriteDocs : handleSaveCustomerUpdate(id, d)
  \/ \E id \in Ids : handleDeleteCustomer(id)
  \/ WriteAck
  \/ WriteReject
  \/ \E p \in PropSets :
       fetchData(p.where, p.order, p.size, p.isDependantLoading)
  \/ \E i \in 1..MaxInflight : CountResolve(i)
  \/ \E i \in 1..MaxInflight : CountReject(i)
  \/ \E i \in 1..MaxInflight : DocsResolve(i)
  \/ \E i \in 1..MaxInflight : ReadReject(i)
  \/ HandleGetNextPage
  \/ \E i \in 1..MaxInflight : NextResolve(i)
  \/ HandleGetPreviousPage
  \/ \E i \in 1..MaxInflight : PrevResolve(i)
  \/ \E id \in Ids : GatewayDelete(id)
  \/ \E id \in Ids, d \in WriteDocs : GatewayCreate(id, d)
  \/ \E i \in 1..MaxInflight : FetchResolve(i)
  \/ \E i \in 1..MaxInflight : FetchReject(i)

Spec == Init /\ [][Next]_vars

\* the view is navigated away from: React runs the effect cleanups, of which
\* the code has one, the clearTimeout of the Customers page's debounce effect;
\* no hook cancels or flags its awaited reads and writes
Unmount ==
  /\ mounted
  /\ mounted' = FALSE
  /\ timer' = <<>>
  /\ UNCHANGED <<hook, svc, svcVars, emptyTurn, store, writes, renders, failures, trip, pure, filters,
                 customers, loading, error, currentPage, totalItems,
                 totalPages, inflight, write, lastInit, curVars>>

NextUnmount == Next \/ Unmount

\* the life of a view up to and after its unmount
SpecUnmount == Init /\ [][NextUnmount]_vars
\* ---------------------------------------------- customerService.getCustomers
\* stands for the character U+F8FF, which sorts after every character of a stored value
HighChar == "~"

\* the value a where clause compares: nameLower is the lower-cased name that
\* createCustomer / updateCustomer store beside the name
FieldValue(d, field) ==
  IF field = "nameLower" THEN ToLowerCase(d.name) ELSE d[field]

Where(field, op, value) == [field |-> field, op |-> op, value |-> value]

\* the pair of where clauses of a prefix search
PrefixRange(field, value) ==
  <<Where(field, ">=", value), Where(field, "<=", value \o <<HighChar>>)>>

\* the constraints getCustomers collects: one prefix range per truthy filter
Constraints(p) ==
  (IF p.name # <<>> THEN PrefixRange("nameLower", ToLowerCase(p.name))
   ELSE <<>>)
  \o (IF p.phone # <<>> THEN PrefixRange("phone", p.phone) ELSE <<>>)
  \o (IF p.location # <<>> THEN PrefixRange("location", p.location) ELSE <<>>)
  \o (IF p.postCode # <<>> THEN PrefixRange("postCode", p.postCode) ELSE <<>>)

\* the fields a query carries range predicates on
RangeFields(cs) == {cs[k].field : k \in 1..Len(cs)}

\* where(field, ">=" | "<=", value) on a document
Satisfies(d, c) ==
  IF c.op = ">=" THEN ~StrLess(FieldValue(d, c.field), c.value)
  ELSE ~StrLess(c.value, FieldValue(d, c.field))

\* the gateway's order of a getCustomers query: by the first range field and
\* then by id; orderBy("createdAt", "desc") when there is no constraint (ids
\* are given out in creation order)
ServiceBefore(a, b, cs) ==
  IF cs = <<>> THEN a.id > b.id
  ELSE LET ka == FieldValue(a.doc, cs[1].field)
           kb == FieldValue(b.doc, cs[1].field)
       IN StrLess(ka, kb) \/ (ka = kb /\ a.id < b.id)

RECURSIVE ServiceSort(_, _)
ServiceSort(S, cs) ==
  IF S = {} THEN <<>>
  ELSE LET m == CHOOSE x \in S : \A y \in S \ {x} : ServiceBefore(x, y, cs)
       IN <<m>> \o ServiceSort(S \ {m}, cs)

\* the documents of query(collection, ...constraints), in the gateway's order
ServiceQuery(s, cs) ==
  ServiceSort({Snap(i, s[i]) :
                 i \in {j \in Present(s) :
                          \A k \in 1..Len(cs) : Satisfies(s[j], cs[k])}}, cs)

\* startAfter(lastVisible) on a getCustomers query
ServiceStartAfter(q, c, cs) ==
  LET after(x) == ServiceBefore(c, x, cs) IN SelectSeq(q, after)

ServiceCalls == {"prevPageDocs", "snapshot", "countSnapshot"}

\* getCustomers up to its first await: the constraints are built from the
\* parameters and the first getDocs is issued
getCustomers(p) ==
  /\ hook = SVC
  /\ IF svc = <<>> THEN TRUE ELSE svc[1].awaits \notin ServiceCalls
  /\ svc' = <<[params |-> p, constraints |-> Constraints(p),
               awaits |-> IF p.page > 0 THEN "prevPageDocs" ELSE "snapshot",
               lastVisible |-> <<>>, data |-> <<>>, totalItems |-> 0]>>
  /\ UNCHANGED <<hook, mounted, svcVars, emptyTurn, store, writes, renders, failures, trip, pure,
                 ucdVars, curVars>>

\* getDocs(prevPageQuery) resolves: the last document of the pages before
PrevPageDocsResolve ==
  /\ hook = SVC
  /\ svc # <<>>
  /\ svc[1].awaits = "prevPageDocs"
  /\ LET c == svc[1]
         docs == Limit(ServiceQuery(store, c.constraints),
                       c.params.page * c.params.pageSize)
     IN svc' = <<[c EXCEPT !.awaits = "snapshot",
                           !.lastVisible = IF docs = <<>> THEN <<>>
                                           ELSE <<docs[Len(docs)]>>]>>
  /\ UNCHANGED <<hook, mounted, svcVars, emptyTurn, store, writes, renders, failures, trip, pure,
                 ucdVars, curVars>>

\* getDocs(q) resolves: the page
SnapshotResolve ==
  /\ hook = SVC
  /\ svc # <<>>
  /\ svc[1].awaits = "snapshot"
  /\ LET c == svc[1]
         q == ServiceQuery(store, c.constraints)
         from == IF c.lastVisible = <<>> THEN q
                 ELSE ServiceStartAfter(q, c.lastVisible[1], c.constraints)
     IN svc' = <<[c EXCEPT !.awaits = "countSnapshot",
                           !.data = Limit(from, c.params.pageSize)]>>
  /\ UNCHANGED <<hook, mounted, svcVars, emptyTurn, store, writes, renders, failures, trip, pure,
                 ucdVars, curVars>>

\* getDocs(collection) resolves: totalItems is its size, and the call returns
CountSnapshotResolve ==
  /\ hook = SVC
  /\ svc # <<>>
  /\ svc[1].awaits = "countSnapshot"
  /\ svc' = <<[svc[1] EXCEPT !.awaits = "returned",
                             !.totalItems = Cardinality(Present(store))]>>
  /\ UNCHANGED <<hook, mounted, svcVars, emptyTurn, store, writes, renders, failures, trip, pure,
                 ucdVars, curVars>>

\* the awaited getDocs rejects: the catch block logs and rethrows
getCustomersReject ==
  /\ hook = SVC
  /\ svc # <<>>
  /\ svc[1].awaits \in ServiceCalls
  /\ svc' = <<[svc[1] EXCEPT !.awaits = "thrown"]>>
  /\ UNCHANGED <<hook, mounted, svcVars, emptyTurn, store, writes, renders, failures, trip, pure,
                 ucdVars, curVars>>

\* the filter values typed in the filtering runs: raw, as the inputs hold them
FilterSpaceA == [NoFilters EXCEPT !.name = <<" ", "a">>]
FilterBlank == [NoFilters EXCEPT !.name = <<" ">>]
FilterAC == [NoFilters EXCEPT !.name = <<"a">>, !.location = <<"c">>]
FilterB8 == [NoFilters EXCEPT !.name = <<"B">>, !.postCode = <<"8">>]
RawFilterSets ==
  {NoFilters, FilterA, FilterSpaceA, FilterBlank, FilterAC, FilterB8}

MaxServicePage == 1
ServiceParams ==
  {[page |-> pg, pageSize |-> PageSize, name |-> f.name, phone |-> f.phone,
    location |-> f.location, postCode |-> f.postCode] :
     f \in RawFilterSets, pg \in 0..MaxServicePage}

\* a view of the customer list, or a caller of the service, over a collection
\* that does not change
InitFiltering ==
  /\ hook \in {UCD, SVC}
  /\ mounted = TRUE
  /\ svc = <<>>
  /\ emptyTurn = "none"
  /\ IdleServices
  /\ store \in InitStores(UCD)
  /\ writes = 0
  /\ renders = 0
  /\ failures = 0
  /\ trip = <<>>
  /\ pure = TRUE
  /\ IF hook = UCD THEN MountedUCD ELSE UnmountedUCD
  /\ UnmountedCUR

NextFiltering ==
  \/ \E f \in RawFilterSets : SetFilters(f)
  \/ TimerFire
  \/ \E i \in 1..MaxInflight : FetchResolve(i)
  \/ \E p \in ServiceParams : getCustomers(p)
  \/ PrevPageDocsResolve
  \/ SnapshotResolve
  \/ CountSnapshotResolve
  \/ getCustomersReject

\* filtering alone: filter edits and their loads, and calls of the service
SpecFiltering == InitFiltering /\ [][NextFiltering]_vars

\* ------------------------------------------------------- jobService: calls
\* the existence and ownership test of getJob, on the collection as it is
JobExists(j, c) == jobs[j].state = "live"

JobFound(j, c) == jobs[j].state = "live" /\ jobs[j].customerId = c

\* the spread of jobData after customerId, so that its customerId wins
NewJobDataLast(c, d) ==
  [state |-> "live",
   customerId |-> IF d.customerId = NoField THEN c ELSE d.customerId,
   date |-> d.date, createdFor |-> c]

\* newJob of createJob: the spread of jobData, then customerId
NewJob(c, d) ==
  [state |-> "live", customerId |-> c, date |-> d.date, createdFor |-> c]

\* updateDoc: the fields the object carries replace the stored ones
Merged(job, d) ==
  [job EXCEPT !.customerId = IF d.customerId = NoField THEN @ ELSE d.customerId,
              !.date = IF d.date = NoDate THEN @ ELSE d.date]

\* where("customerId", "==", c), orderBy("date", "desc"): the ids of the
\* customer's jobs that have a date, latest first
JobOrder(a, b) ==
  jobs[a].date > jobs[b].date \/ (jobs[a].date = jobs[b].date /\ a > b)

RECURSIVE JobSort(_)
JobSort(S) ==
  IF S = {} THEN <<>>
  ELSE LET m == CHOOSE x \in S : \A y \in S \ {x} : JobOrder(x, y)
       IN <<m>> \o JobSort(S \ {m})

JobsQuery(c) ==
  JobSort({j \in JobIds : /\ jobs[j].state = "live"
                          /\ jobs[j].customerId = c
                          /\ jobs[j].date # NoDate})

\* the id addDoc gives the new document
FreshJobId == CHOOSE j \in JobIds :
                /\ jobs[j].state = "none"
                /\ \A k \in JobIds : jobs[k].state = "none" => j <= k

Returned(i, o) ==
  /\ jobResult' = <<[op |-> jobCalls[i].op, outcome |-> o]>>
  /\ jobCalls' = RemoveAt(jobCalls, i)

\* the rethrown gateway error, and the Error thrown after a null getJob
JobError == Outcome("error", 0, <<>>)
JobNotFound(j) == Outcome("not found", j, <<>>)

JobFrame == UNCHANGED <<hook, mounted, svc, emptyTurn, store, writes, renders, failures,
                        trip, pure, ucdVars, curVars, records, custCall,
                        custResult, invoices, invCall, invResult>>

\* a call of the service up to its first await
JobCallStart(call) ==
  /\ hook = JOB
  /\ Len(jobCalls) < MaxJobCalls
  /\ jobCalls' = Append(jobCalls, call)
  /\ UNCHANGED <<jobs, jobResult>>
  /\ JobFrame

getJobs(c) == JobCallStart(JobCall("getJobs", c, 0, NoJobData, "getDocs"))

getJob(c, j) == JobCallStart(JobCall("getJob", c, j, NoJobData, "getDoc"))

createJob(c, d) ==
  /\ Cardinality({j \in JobIds : jobs[j].state = "none"})
       > Cardinality({k \in 1..Len(jobCalls) : jobCalls[k].op = "createJob"})
  /\ JobCallStart(JobCall("createJob", c, 0, d, "addDoc"))

\* updateJob and deleteJob start with await getJob(customerId, jobId)
updateJob(c, j, d) == JobCallStart(JobCall("updateJob", c, j, d, "getDoc"))

deleteJob(c, j) ==
  JobCallStart(JobCall("deleteJob", c, j, NoJobData, "getDoc"))

\* getDocs of getJobs resolves
GetDocsResolve(i) ==
  /\ hook = JOB
  /\ i \in 1..Len(jobCalls)
  /\ jobCalls[i].awaits = "getDocs"
  /\ Returned(i, Outcome("list", 0, JobsQuery(jobCalls[i].customerId)))
  /\ UNCHANGED jobs
  /\ JobFrame

\* addDoc of createJob resolves: the document is stored, its id returned
AddDocResolve(i) ==
  /\ hook = JOB
  /\ i \in 1..Len(jobCalls)
  /\ jobCalls[i].awaits = "addDoc"
  /\ jobs' = [jobs EXCEPT ![FreshJobId] =
                NewJob(jobCalls[i].customerId, jobCalls[i].data)]
  /\ Returned(i, Outcome("id", FreshJobId, <<>>))
  /\ JobFrame

\* getDoc of getJob resolves, in getJob itself or as the check of updateJob
\* and deleteJob, which throw on null and go on to their write otherwise
GetDocResolve(i) ==
  /\ hook = JOB
  /\ i \in 1..Len(jobCalls)
  /\ jobCalls[i].awaits = "getDoc"
  /\ LET call == jobCalls[i]
         found == JobFound(call.jobId, call.customerId)
     IN IF call.op = "getJob"
        THEN Returned(i, IF found THEN Outcome("job", call.jobId, <<>>)
                         ELSE Outcome("null", call.jobId, <<>>))
        ELSE IF ~found THEN Returned(i, JobNotFound(call.jobId))
        ELSE /\ jobCalls' = [jobCalls EXCEPT ![i].awaits =
                               IF call.op = "updateJob" THEN "updateDoc"
                               ELSE "deleteDoc"]
             /\ UNCHANGED jobResult
  /\ UNCHANGED jobs
  /\ JobFrame

\* updateDoc of updateJob resolves; the gateway rejects the update of a
\* document that is not there
UpdateDocResolve(i) ==
  /\ hook = JOB
  /\ i \in 1..Len(jobCalls)
  /\ jobCalls[i].awaits = "updateDoc"
  /\ LET call == jobCalls[i]
     IN IF jobs[call.jobId].state = "live"
        THEN /\ jobs' = [jobs EXCEPT ![call.jobId] = Merged(@, call.data)]
             /\ Returned(i, Outcome("true", call.jobId, <<>>))
        ELSE /\ UNCHANGED jobs
             /\ Returned(i, JobError)
  /\ JobFrame

\* deleteDoc of deleteJob resolves
DeleteDocResolve(i) ==
  /\ hook = JOB
  /\ i \in 1..Len(jobCalls)
  /\ jobCalls[i].awaits = "deleteDoc"
  /\ jobs' = [jobs EXCEPT ![jobCalls[i].jobId] =
                IF @.state = "live" THEN DeletedJob ELSE @]
  /\ Returned(i, Outcome("true", jobCalls[i].jobId, <<>>))
  /\ JobFrame

\* the awaited gateway call rejects: the catch block logs and rethrows
JobCallReject(i) ==
  /\ hook = JOB
  /\ i \in 1..Len(jobCalls)
  /\ Returned(i, JobError)
  /\ UNCHANGED jobs
  /\ JobFrame

\* callers of the job service over an empty jobs collection
InitJobs ==
  /\ hook = JOB
  /\ mounted = TRUE
  /\ svc = <<>>
  /\ emptyTurn = "none"
  /\ IdleServices
  /\ store = StoreOf({})
  /\ writes = 0
  /\ renders = 0
  /\ failures = 0
  /\ trip = <<>>
  /\ pure = TRUE
  /\ UnmountedUCD
  /\ UnmountedCUR

NextJobs ==
  \/ \E c \in JobCustomers : getJobs(c)
  \/ \E c \in JobCustomers, j \in JobIds : getJob(c, j)
  \/ \E c \in JobCustomers, d \in CreateDatas : createJob(c, d)
  \/ \E c \in JobCustomers, j \in JobIds, d \in UpdateDatas : updateJob(c, j, d)
  \/ \E c \in JobCustomers, j \in JobIds : deleteJob(c, j)
  \/ \E i \in 1..MaxJobCalls : GetDocsResolve(i)
  \/ \E i \in 1..MaxJobCalls : AddDocResolve(i)
  \/ \E i \in 1..MaxJobCalls : GetDocResolve(i)
  \/ \E i \in 1..MaxJobCalls : UpdateDocResolve(i)
  \/ \E i \in 1..MaxJobCalls : DeleteDocResolve(i)
  \/ \E i \in 1..MaxJobCalls : JobCallReject(i)

\* the job service under concurrent calls
SpecJobs == InitJobs /\ [][NextJobs]_vars

\* -------------------------------------------------- customer records: calls
RECORDS == "customer records"

\* customerData.name is truthy
NameGiven(d) == d.hasName /\ d.name # <<>>

\* the name field is spread into the document whether truthy or not
SpreadName(doc, d) ==
  IF d.hasName THEN [doc EXCEPT !.hasName = TRUE, !.name = d.name] ELSE doc

\* data of createCustomer, in the hook and in the service alike
NewRecord(d) ==
  [SpreadName(NoRecord, d) EXCEPT
     !.state = "live",
     !.nameLower = IF NameGiven(d) THEN ToLowerCase(d.name) ELSE <<>>]

\* updateCustomer of the service: nameLower only with a truthy name
ServiceUpdated(doc, d) ==
  [SpreadName(doc, d) EXCEPT
     !.nameLower = IF NameGiven(d) THEN ToLowerCase(d.name) ELSE @]

\* updateCustomer of useCustomerData: nameLower always, "" without a name
HookUpdated(doc, d) ==
  [SpreadName(doc, d) EXCEPT
     !.nameLower = IF NameGiven(d) THEN ToLowerCase(d.name) ELSE <<>>]

\* the collection a call works on
CollectionOf(api) == IF api = UCD THEN HookCollection ELSE CUSTOMERS_COLLECTION

\* the id of a new document: no document of any collection has had it
FreshRecordId ==
  CHOOSE i \in RecordIds :
    /\ \A k \in CustomerCollections : records[k][i].state = "none"
    /\ \A j \in RecordIds :
         (\A k \in CustomerCollections : records[k][j].state = "none") => i <= j

\* the ids the listing of useCustomerData shows: getDocs(query(customersRef))
ListedIds == {i \in RecordIds : records[HookCollection][i].state = "live"}

CustomerCall(api, op, i, d) == [api |-> api, op |-> op, id |-> i, data |-> d]

CustomerFrame == UNCHANGED <<hook, mounted, svc, emptyTurn, store, writes, renders,
                             failures, trip, pure, ucdVars, curVars, jobs,
                             jobCalls, jobResult, invoices, invCall,
                             invResult>>

CustomerCallStart(call) ==
  /\ hook = RECORDS
  /\ custCall = <<>>
  /\ custCall' = <<call>>
  /\ UNCHANGED <<records, custResult>>
  /\ CustomerFrame

CustomerReturned(kind, i) ==
  /\ custResult' = <<[api |-> custCall[1].api, op |-> custCall[1].op,
                      kind |-> kind, id |-> i]>>
  /\ custCall' = <<>>

\* createCustomer up to its addDoc
createCustomer(api, d) ==
  /\ \E i \in RecordIds :
       \A k \in CustomerCollections : records[k][i].state = "none"
  /\ CustomerCallStart(CustomerCall(api, "createCustomer", 0, d))

\* updateCustomer up to its updateDoc
updateCustomer(api, i, d) ==
  CustomerCallStart(CustomerCall(api, "updateCustomer", i, d))

\* deleteCustomer up to its deleteDoc
deleteCustomer(api, i) ==
  CustomerCallStart(CustomerCall(api, "deleteCustomer", i, NoCustomerData))

\* customerService.getCustomer up to its getDoc
getCustomer(i) ==
  CustomerCallStart(CustomerCall(SVC, "getCustomer", i, NoCustomerData))

CustomerAddDocResolve ==
  /\ hook = RECORDS
  /\ custCall # <<>>
  /\ custCall[1].op = "createCustomer"
  /\ records' = [records EXCEPT ![CollectionOf(custCall[1].api)][FreshRecordId]
                                  = NewRecord(custCall[1].data)]
  /\ CustomerReturned("created", FreshRecordId)
  /\ CustomerFrame

\* updateDoc resolves, or rejects because the document is not there
CustomerUpdateDocResolve ==
  /\ hook = RECORDS
  /\ custCall # <<>>
  /\ custCall[1].op = "updateCustomer"
  /\ LET call == custCall[1]
         k == CollectionOf(call.api)
     IN IF records[k][call.id].state = "live"
        THEN /\ records' = [records EXCEPT ![k][call.id] =
                              IF call.api = UCD THEN HookUpdated(@, call.data)
                              ELSE ServiceUpdated(@, call.data)]
             /\ CustomerReturned("updated", call.id)
        ELSE /\ UNCHANGED records
             /\ CustomerReturned("error", call.id)
  /\ CustomerFrame

CustomerDeleteDocResolve ==
  /\ hook = RECORDS
  /\ custCall # <<>>
  /\ custCall[1].op = "deleteCustomer"
  /\ LET call == custCall[1]
         k == CollectionOf(call.api)
     IN /\ records' = [records EXCEPT ![k][call.id] =
                         IF @.state = "live" THEN DeletedRecord ELSE @]
        /\ CustomerReturned("deleted", call.id)
  /\ CustomerFrame

\* getDoc of getCustomer resolves: the document, or "Customer not found"
CustomerGetDocResolve ==
  /\ hook = RECORDS
  /\ custCall # <<>>
  /\ custCall[1].op = "getCustomer"
  /\ CustomerReturned(
       IF records[CUSTOMERS_COLLECTION][custCall[1].id].state = "live"
       THEN "customer" ELSE "not found", custCall[1].id)
  /\ UNCHANGED records
  /\ CustomerFrame

\* the awaited gateway call rejects: the catch block logs and rethrows
CustomerCallReject ==
  /\ hook = RECORDS
  /\ custCall # <<>>
  /\ CustomerReturned("error", custCall[1].id)
  /\ UNCHANGED records
  /\ CustomerFrame

InitRecords ==
  /\ hook = RECORDS
  /\ mounted = TRUE
  /\ svc = <<>>
  /\ emptyTurn = "none"
  /\ IdleServices
  /\ store = StoreOf({})
  /\ writes = 0
  /\ renders = 0
  /\ failures = 0
  /\ trip = <<>>
  /\ pure = TRUE
  /\ UnmountedUCD
  /\ UnmountedCUR

NextRecords ==
  \/ \E api \in {UCD, SVC}, d \in CustomerDatas : createCustomer(api, d)
  \/ \E api \in {UCD, SVC}, i \in RecordIds, d \in CustomerDatas :
       updateCustomer(api, i, d)
  \/ \E api \in {UCD, SVC}, i \in RecordIds : deleteCustomer(api, i)
  \/ \E i \in RecordIds : getCustomer(i)
  \/ CustomerAddDocResolve
  \/ CustomerUpdateDocResolve
  \/ CustomerDeleteDocResolve
  \/ CustomerGetDocResolve
  \/ CustomerCallReject

\* the customer records written through the hook and through the service
SpecRecords == InitRecords /\ [][NextRecords]_vars

\* ----------------------------------------------------- invoiceService: calls
INVOICES == "invoiceService"

InvoiceFrame == UNCHANGED <<hook, mounted, svc, emptyTurn, store, writes, renders,
                            failures, trip, pure, ucdVars, curVars, jobs,
                            jobCalls, jobResult, records, custCall,
                            custResult, invoices>>

\* what a call hands back: an array (the set of its invoice ids), null, or a
\* thrown error
InvoiceArray(ids) == [kind |-> "array", ids |-> ids, message |-> ""]
InvoiceNull == [kind |-> "null", ids |-> {}, message |-> ""]
InvoiceError(msg) == [kind |-> "error", ids |-> {}, message |-> msg]

\* where("customerId", "==", customerId) on the invoices collection
InvoicesOf(c) ==
  {i \in InvoiceIds : invoices[i].state = "live" /\ invoices[i].customerId = c}

\* catch of getAllInvoicesOfCustomer: the error is logged and null returned
AllInvoicesCaught == InvoiceNull

\* getAllInvoicesOfCustomer(customerId) once its query has an answer
\* (ok = FALSE: getDocs rejected)
AllInvoicesAnswer(c, ok) ==
  IF ok THEN InvoiceArray(InvoicesOf(c)) ELSE AllInvoicesCaught

\* the filter callback of getOverdueInvoices
Overdue(i) ==
  /\ invoices[i].status # "paid"
  /\ invoices[i].dueDate # NoDate
  /\ invoices[i].dueDate < Today

\* invoices.filter(...) on what getAllInvoicesOfCustomer resolved to; on null
\* the property access throws a TypeError, which the catch rethrows
OverdueAnswer(all) ==
  IF all.kind = "array"
    THEN InvoiceArray({i \in all.ids : Overdue(i)})
    ELSE InvoiceError("TypeError")

InvoiceResult(op, c, o) == <<[op |-> op, customerId |-> c, outcome |-> o]>>

\* getAllInvoicesOfCustomer up to its await; a missing customerId throws
\* inside the try and the catch turns it into null
getAllInvoicesOfCustomer(c) ==
  /\ hook = INVOICES
  /\ invCall = <<>>
  /\ IF c = NoCustomerId
       THEN /\ invResult' = InvoiceResult("getAllInvoicesOfCustomer", c,
                                          AllInvoicesCaught)
            /\ invCall' = <<>>
       ELSE /\ invCall' = <<[op |-> "getAllInvoicesOfCustomer",
                             customerId |-> c]>>
            /\ invResult' = <<>>
  /\ InvoiceFrame

\* getOverdueInvoices up to the await inside getAllInvoicesOfCustomer
getOverdueInvoices(c) ==
  /\ hook = INVOICES
  /\ invCall = <<>>
  /\ IF c = NoCustomerId
       THEN /\ invResult' = InvoiceResult("getOverdueInvoices", c,
                                          InvoiceError("Customer ID is required"))
            /\ invCall' = <<>>
       ELSE /\ invCall' = <<[op |-> "getOverdueInvoices", customerId |-> c]>>
            /\ invResult' = <<>>
  /\ InvoiceFrame

\* getDocs(q) settles (ok: resolved, otherwise rejected) and the call runs on
\* to its end
InvoiceGetDocsSettle(ok) ==
  /\ hook = INVOICES
  /\ invCall # <<>>
  /\ LET call == invCall[1]
         all == AllInvoicesAnswer(call.customerId, ok)
     IN invResult' = InvoiceResult(call.op, call.customerId,
                       IF call.op = "getOverdueInvoices"
                         THEN OverdueAnswer(all) ELSE all)
  /\ invCall' = <<>>
  /\ InvoiceFrame

InvoiceGetDocsResolve == InvoiceGetDocsSettle(TRUE)
InvoiceGetDocsReject == InvoiceGetDocsSettle(FALSE)

InitInvoices ==
  /\ hook = INVOICES
  /\ mounted = TRUE
  /\ svc = <<>>
  /\ emptyTurn = "none"
  /\ jobs = [j \in JobIds |-> NoJob]
  /\ jobCalls = <<>>
  /\ jobResult = <<>>
  /\ records = [k \in CustomerCollections |-> [i \in RecordIds |-> NoRecord]]
  /\ custCall = <<>>
  /\ custResult = <<>>
  /\ invoices \in [InvoiceIds -> InvoiceDocs]
  /\ invCall = <<>>
  /\ invResult = <<>>
  /\ store = StoreOf({})
  /\ writes = 0
  /\ renders = 0
  /\ failures = 0
  /\ trip = <<>>
  /\ pure = TRUE
  /\ UnmountedUCD
  /\ UnmountedCUR

NextInvoices ==
  \/ \E c \in InvoiceCustomers \cup {NoCustomerId} : getAllInvoicesOfCustomer(c)
  \/ \E c \in InvoiceCustomers \cup {NoCustomerId} : getOverdueInvoices(c)
  \/ InvoiceGetDocsResolve
  \/ InvoiceGetDocsReject

SpecInvoices == InitInvoices /\ [][NextInvoices]_vars

\* ------------------------------------------------------------------ claims
\* the page of the collection that a fetchCustomers run with parameters r
\* computes from the collection s
ViewOf(s, r) ==
  LET filteredList == Filtered(CustomerList(s), r.filters)
  IN [customers |-> Paginated(filteredList, r.page),
      totalItems |-> Len(filteredList),
      totalPages |-> Ceil(Len(filteredList), PageSize)]

Displayed ==
  [customers |-> customers, totalItems |-> totalItems,
   totalPages |-> totalPages]

\* C1: once every load has resolved (none failed last), the list, totalItems
\* and totalPages of useCustomerData are those of the latest-initiated load,
\* whatever the order in which the gateway responses arrived.
C1_LatestLoadWins ==
  (hook = UCD /\ inflight = <<>> /\ error = NULL /\ lastInit # <<>>)
    => Displayed = ViewOf(store, lastInit[1])
Max(a, b) == IF a > b THEN a ELSE b

\* C2: in every reachable state of either pagination controller,
\* 0 <= pageIndex < max(totalPages, 1).
C2_PageIndexInRange ==
  /\ hook = UCD => (0 <= currentPage /\ currentPage < Max(totalPages, 1))
  /\ hook = CUR => (0 <= page /\ page < Max(pagesNumber, 1))

\* C3: a change of the filter set or of the ordering resets the page index
\* to 0 and the ledger: in useCustomerData the load it starts is a load of
\* page 0; in the cursor hook, when the load it started completes, page is 0
\* and the ledger holds nothing but the entry of page 0.
C3_FilterChangeResets ==
  [][ /\ (hook = UCD /\ filters' # filters)
         => (currentPage' = 0 /\ inflight'[Len(inflight')].page = 0)
      /\ \A i \in 1..Len(reads) :
           (reads[i].kind = "docs" /\ reads[i].changed /\ DocsResolve(i))
             => (page' = 0 /\ Len(pageStateRef') <= 1) ]_vars

\* C4: when the refresh after deleting the only record of the last page
\* completes, pageIndex is the former totalPages - 2 (0 if it was the only
\* page) and the displayed records are those of that page.
C4_DeleteSoleRecordClamps ==
  [][ \A i \in 1..Len(inflight) :
        LET r == inflight[i]
        IN ("sole" \in DOMAIN r /\ r.sole /\ FetchResolve(i))
             => /\ currentPage' = Max(r.pages - 2, 0)
                /\ customers' =
                     ViewOf(store, Req(r.filters, Max(r.pages - 2, 0))).customers
    ]_vars

\* the least number of pages of s items that hold n items
LeastPages(n, s) == CHOOSE k \in 0..n : k * s >= n /\ \A j \in 0..(k - 1) : j * s < n

\* C5: whenever no read is in flight (and so, as the claim has it for every
\* reachable state, in those states too) totalPages is
\* ceil(totalItems / pageSize) for the page size of the mounted hook, and 0
\* when totalItems is 0.
C5_TotalPagesIsCeil ==
  /\ (hook = UCD /\ inflight = <<>>)
       => totalPages = LeastPages(totalItems, PageSize)
  /\ (hook = CUR /\ reads = <<>>)
       => pagesNumber = LeastPages(count, size)

\* C6: in a run without any mutation of the collection, when a next() from a
\* page with pageIndex < totalPages - 1 has completed and the previous() that
\* followed it at once has completed, the record list and pageIndex are those
\* that were visible before the next().
C6_RoundTripRestores ==
  (TripDone /\ writes = 0) =>
    IF hook = UCD
    THEN customers = trip[1].list /\ currentPage = trip[1].index
    ELSE data = trip[1].list /\ page = trip[1].index

\* C7: in a run of nothing but the mount load and next() calls, a next() made
\* while pageIndex < totalPages - 1 (and no read in flight) moves pageIndex up
\* by exactly 1 -- at once in useCustomerData, when its read completes in the
\* cursor hook --, a next() made while pageIndex >= totalPages - 1 changes
\* nothing, and no next() takes pageIndex beyond totalPages - 1.
C7_NextAdvancesByOne ==
  [][ (pure /\ pure') =>
        /\ ClickNext
             => (currentPage' = currentPage + 1 /\ currentPage' <= totalPages - 1)
        /\ (hook = UCD /\ currentPage >= totalPages - 1)
             => currentPage' = currentPage
        /\ (HandleGetNextPage /\ page >= pagesNumber - 1) => UNCHANGED curVars
        /\ (HandleGetNextPage /\ page < pagesNumber - 1 /\ reads = <<>>)
             => (Len(reads') = 1 /\ reads'[1].kind = "next")
        /\ \A i \in 1..Len(reads) :
             NextResolve(i)
               => (page' = page + 1 /\ page' <= pagesNumber' - 1) ]_vars

\* the last page reached by next() calls alone
C7_Witness ==
  /\ pure
  /\ hook = CUR
  /\ reads = <<>>
  /\ page > 0
  /\ page = pagesNumber - 1

\* C8: while a read is in flight, a next() or previous() call changes no
\* controller state and starts no gateway read.
C8_NoOpWhileReadInFlight ==
  [][ /\ (inflight # <<>> /\ (ClickNext \/ ClickPrevious)) => UNCHANGED ucdVars
      /\ (reads # <<>> /\ (HandleGetNextPage \/ HandleGetPreviousPage))
           => UNCHANGED curVars ]_vars

\* C9: in the cursor hook, the resolution of a HandleGetNextPage or
\* HandleGetPreviousPage read that was still in flight when a later load
\* started modifies none of data, page, the cursor references and the ledger.
C9_SupersededReadDiscarded ==
  [][ \A i \in 1..Len(reads) :
        ( /\ reads[i].kind \in {"next", "prev"}
          /\ \E j \in (i + 1)..Len(reads) : reads[j].kind = "count"
          /\ (NextResolve(i) \/ PrevResolve(i)) )
          => UNCHANGED <<data, page, firstVisibleRef, lastVisibleRef,
                         pageStateRef>> ]_vars

\* C10: in the cursor hook, in a filter session (the where, orderBy and size
\* props never changed, at most one reload, no write, no failed read), with
\* every operation completed, the ledger has one entry per page up to the
\* current one and entry i holds the first and last record of page i.
C10_LedgerMatchesPages ==
  ( /\ hook = CUR
    /\ reads = <<>>
    /\ ~isDependantLoading
    /\ whereQueries = <<>> /\ orderByQueries = <<>> /\ size = PageSize
    /\ renders <= 1 /\ writes = 0 /\ failures = 0 )
    => /\ Len(pageStateRef) = page + 1
       /\ \A i \in 1..Len(pageStateRef) :
            pageStateRef[i]
              = Entry(PageOf(QueryDocs(store, whereQueries, orderByQueries),
                             size, i - 1))

\* C11: previous() changes nothing when pageIndex <= 0; otherwise it reads the
\* prior page again from the gateway and, when that read completes, pageIndex
\* is one less, the ledger has lost its last entry and the displayed records
\* are the gateway's current contents of page pageIndex - 1.  The completion
\* is looked at only in runs without a failed read, a write or a change of
\* the where, orderBy and size props, and with no other read in flight.
C11_PreviousGoesBackOnePage ==
  [][ /\ (HandleGetPreviousPage /\ page <= 0) => UNCHANGED curVars
      /\ ClickPrevious
           => /\ currentPage' = currentPage - 1
              /\ currentPage' >= 0
              /\ inflight' = Append(inflight, Req(filters, currentPage - 1))
      /\ ( /\ failures = 0 /\ writes = 0
           /\ whereQueries = <<>> /\ orderByQueries = <<>> /\ size = PageSize
           /\ Len(reads) = 1 /\ PrevResolve(1) )
           => /\ page' = page - 1
              /\ Len(pageStateRef') = Len(pageStateRef) - 1
              /\ data' = PageOf(QueryDocs(store, whereQueries, orderByQueries),
                                size, page - 1)
    ]_vars

\* C12: with no filters and an unchanging collection of N records, once the
\* initial load and k next() calls have completed (nothing else having been
\* done, nothing in flight), pageIndex is k, totalPages is ceil(N / S) and the
\* displayed list is the records at positions [k*S, min((k+1)*S, N)) of the
\* ordered result.
C12_PageKAfterKNexts ==
  /\ (hook = UCD /\ pure /\ writes = 0 /\ inflight = <<>> /\ timer = <<>>)
       => /\ totalPages = Ceil(Len(CustomerList(store)), PageSize)
          /\ currentPage <= totalPages - 1
          /\ customers = Slice(CustomerList(store), currentPage * PageSize,
                               currentPage * PageSize + PageSize)
  /\ (hook = CUR /\ pure /\ writes = 0 /\ reads = <<>>)
       => /\ pagesNumber = Ceil(Len(QueryDocs(store, <<>>, <<>>)), size)
          /\ page <= pagesNumber - 1
          /\ data = Slice(QueryDocs(store, <<>>, <<>>), page * size,
                          page * size + size)

\* the records of a list that a filter set selects: every field whose value
\* is not empty after trimming must contain that trimmed value (name and
\* location without regard to case)
Selects(f, c) ==
  /\ Trim(f.name) = <<>>
       \/ Includes(ToLowerCase(c.name), ToLowerCase(Trim(f.name)))
  /\ Trim(f.phone) = <<>> \/ Includes(c.phone, Trim(f.phone))
  /\ Trim(f.location) = <<>>
       \/ Includes(ToLowerCase(c.location), ToLowerCase(Trim(f.location)))
  /\ Trim(f.postCode) = <<>> \/ Includes(c.postCode, Trim(f.postCode))
MatchingRecords(list, f) ==
  LET sel(c) == Selects(f, c) IN SelectSeq(list, sel)

\* C13: when the load for a non-empty filter set that matches m records, 0 < m <=
\* pageSize, completes, totalItems is m, totalPages is 1 and the displayed
\* list holds all m matching records.
C13_SmallMatchOnFirstPage ==
  [][ \A i \in 1..Len(inflight) :
        LET r == inflight[i]
            matching == MatchingRecords(CustomerList(store), r.filters)
        IN ( /\ r.filters # NoFilters
             /\ Len(matching) \in 1..PageSize
             /\ FetchResolve(i) )
             => /\ totalItems' = Len(matching)
                /\ totalPages' = 1
                /\ customers' = matching ]_vars

\* C14: a load, next or previous that completes successfully leaves the
\* stored error null, whatever failed before it (in the cursor hook: looked at
\* when no load was started after mount and no other read is in flight).
C14_SuccessClearsError ==
  [][ /\ \A i \in 1..Len(inflight) : FetchResolve(i) => error' = NULL
      /\ ( /\ renders = 0 /\ Len(reads) = 1
           /\ (NextResolve(1) \/ PrevResolve(1))
           /\ page' # page )
           => cError' = NULL ]_vars

\* C15: a failed read or count leaves the error set: it is non-null right
\* after the rejection, and still non-null when the load whose count was
\* rejected completes.
C15_FailureNotMasked ==
  [][ /\ \A i \in 1..Len(inflight) : FetchReject(i) => error' # NULL
      /\ \A j \in 1..Len(reads) :
           /\ (CountReject(j) \/ ReadReject(j)) => cError' # NULL
           /\ (reads[j].failed /\ DocsResolve(j)) => cError' # NULL ]_vars

\* C16: once the view is unmounted, no step -- so no read or write that was in
\* flight at the unmount and resolves afterwards -- writes the controller's
\* local state; stated for the part of that state which is plain mutable
\* references of the cursor hook (the ledger and its two cursors), whose
\* assignments React does not intercept
C16_NoUpdateAfterUnmount ==
  [][ ~mounted => UNCHANGED <<firstVisibleRef, lastVisibleRef, pageStateRef>>
    ]_vars

\* C17: the step in which the gateway acknowledges a create, update or delete
\* applies the write and then starts exactly one more load; after a delete --
\* whose handler awaits with no dialog open -- that load is for the filter set
\* the controller holds at that moment; the step in which the gateway rejects
\* a write starts no load
C17_RefreshAfterAck ==
  [][ /\ WriteAck
           => /\ store' = Written(store, write[1])
              /\ Len(inflight') = Len(inflight) + 1
              /\ SubSeq(inflight', 1, Len(inflight)) = inflight
              /\ write[1].op = "delete"
                   => inflight'[Len(inflight')].filters = filters
      /\ WriteReject => inflight' = inflight
    ]_vars

\* C18: the records a load selects are those that satisfy, for every field
\* whose trimmed filter value is not empty, the substring predicate of that
\* trimmed value -- so a value that is blank imposes nothing and a padded value
\* selects what its trimmed form selects; the load shows their count and the
\* requested page of them
C18_FilterByTrimmedValues ==
  [][ \A i \in 1..Len(inflight) :
        LET r == inflight[i]
            selected == MatchingRecords(CustomerList(store), r.filters)
        IN FetchResolve(i)
             => /\ totalItems' = Len(selected)
                /\ customers' = Paginated(selected, r.page)
    ]_vars

\* C19: whatever the filter set of a getCustomers call -- in particular when two
\* or more of name, phone, location and postCode are non-empty -- the query the
\* call builds for the gateway carries range predicates on at most one field
C19_OneRangeFieldPerQuery ==
  svc # <<>> => Cardinality(RangeFields(svc[1].constraints)) <= 1

\* C20: when a getCustomers call that filtered natively (here: on one field)
\* has returned, its totalItems is the number of records that satisfy the
\* predicates of its page query
C20_TotalItemsCountsMatches ==
  ( /\ svc # <<>>
    /\ svc[1].awaits = "returned"
    /\ Cardinality(RangeFields(svc[1].constraints)) = 1 )
    => svc[1].totalItems = Len(ServiceQuery(store, svc[1].constraints))

\* the ids of a getJobs result
Listed(o) == {o.list[k] : k \in 1..Len(o.list)}

C22_CheckBeforeWrite ==
  [][ \A i \in 1..Len(jobCalls) :
        LET call == jobCalls[i]
            missing == jobs[call.jobId].state # "live"
            foreign == ~missing /\ jobs[call.jobId].customerId # call.customerId
        IN GetDocResolve(i)
             => /\ jobs' = jobs
                /\ IF call.op = "getJob"
                   THEN /\ jobCalls' = RemoveAt(jobCalls, i)
                        /\ jobResult'[1].outcome.kind
                             = IF missing \/ foreign THEN "null" ELSE "job"
                   ELSE IF missing \/ foreign
                   THEN /\ jobCalls' = RemoveAt(jobCalls, i)
                        /\ jobResult'[1].outcome.kind = "not found"
                   ELSE /\ Len(jobCalls') = Len(jobCalls)
                        /\ jobCalls'[i].awaits \in {"updateDoc", "deleteDoc"}
    ]_vars

\* a deleteJob has thrown at its check and the job is (still) there
C22_Witness ==
  /\ jobResult # <<>>
  /\ jobResult[1].op = "deleteJob"
  /\ jobResult[1].outcome.kind = "not found"
  /\ jobs[1].state = "live"

\* C28: a write of updateJob(c, j, ...) or deleteJob(c, j) that changes the
\* collection changes a job that, in the state it is applied to, exists and is
\* stored under customerId c
C28_WriteOnCheckedJob ==
  [][ \A i \in 1..Len(jobCalls) :
        ((UpdateDocResolve(i) \/ DeleteDocResolve(i)) /\ jobs' # jobs)
          => /\ jobs[jobCalls[i].jobId].state = "live"
             /\ jobs[jobCalls[i].jobId].customerId = jobCalls[i].customerId
    ]_vars

\* C29: every job that exists is stored under the customerId it was created
\* for
C29_OwnerNeverChanges ==
  \A j \in JobIds :
    jobs[j].state = "live" => jobs[j].customerId = jobs[j].createdFor

\* C23: every stored customer record, in the collection of the hook and in
\* that of the service, has nameLower equal to its name in lower case (the
\* empty string for a record without a name)
C23_NameLowerFollowsName ==
  \A k \in CustomerCollections, i \in RecordIds :
    records[k][i].state = "live"
      => records[k][i].nameLower = ToLowerCase(records[k][i].name)

\* C30: customerService.getCustomer of an id that the listing of
\* useCustomerData shows resolves to the record the listing shows, and after
\* customerService.deleteCustomer of an id the listing does not show it
C30_OneRecordStore ==
  [][ /\ (CustomerGetDocResolve /\ custCall[1].id \in ListedIds)
           => /\ custResult'[1].kind = "customer"
              /\ records[CUSTOMERS_COLLECTION][custCall[1].id]
                   = records[HookCollection][custCall[1].id]
      /\ (CustomerDeleteDocResolve /\ custCall[1].api = SVC)
           => custCall[1].id \notin ListedIds'
    ]_vars

\* C24: getAllInvoicesOfCustomer never resolves to a non-array value (a missing
\* customerId or a failed query is an error), and getOverdueInvoices called
\* with a customerId hands back exactly the invoices of that customer that are
\* not paid and whose due date is in the past.
C24_InvoicesAlwaysArray ==
  invResult # <<>> =>
    LET r == invResult[1] IN
      /\ r.op = "getAllInvoicesOfCustomer" =>
            /\ r.outcome.kind # "null"
            /\ r.outcome.kind = "array" =>
                  r.outcome.ids = InvoicesOf(r.customerId)
      /\ r.op = "getOverdueInvoices" =>
            /\ r.outcome.kind = "error" =>
                  r.outcome.message = "Customer ID is required"
            /\ r.outcome.kind = "array" =>
                  r.outcome.ids =
                    {i \in InvoicesOf(r.customerId) :
                       /\ invoices[i].status # "paid"
                       /\ invoices[i].dueDate # NoDate
                       /\ invoices[i].dueDate < Today}

\* the part of C24 about an answered query: the arrays are the right ones
C24_AnsweredQueryArrays ==
  [][InvoiceGetDocsResolve =>
       /\ invResult'[1].outcome.kind = "array"
       /\ invResult'[1].op = "getAllInvoicesOfCustomer" =>
             invResult'[1].outcome.ids = InvoicesOf(invResult'[1].customerId)
       /\ invResult'[1].op = "getOverdueInvoices" =>
             invResult'[1].outcome.ids =
               {i \in InvoicesOf(invResult'[1].customerId) :
                  invoices[i].status # "paid" /\ invoices[i].dueDate = 1}]_vars

\* C25: filter changes are debounced: the step that edits the filters issues
\* no gateway read (the read waits for the 300 ms timeout), and when the
\* timeout fires it issues exactly one read, for the filters of the last edit.
C25_FilterEditsDebounced ==
  [][/\ (hook = UCD /\ filters' # filters) =>
          /\ inflight' = inflight
          /\ timer' = <<Req(filters', currentPage')>>
     /\ (hook = UCD /\ timer # <<>> /\ timer' = <<>>) =>
          inflight' = Append(inflight, Req(filters, currentPage))]_vars

\* the documents the getDocs of a page turn resolves with
TurnDocs(r) ==
  LET q == QueryDocs(store, r.where, r.order)
  IN IF r.kind = "next"
       THEN Limit(StartAfter(q, r.cursor, r.order), r.size)
     ELSE IF r.page > 1
       THEN LimitToLast(EndBefore(q, r.cursor, r.order), r.size)
     ELSE Limit(q, r.size)

\* C27: when HandleGetNextPage or HandleGetPreviousPage completes with an
\* empty query result, data, page, count, pagesNumber, the first/last cursor
\* references and the ledger are unchanged and loading is false afterwards.
C27_EmptyTurnChangesNothing ==
  [][\A i \in 1..Len(reads) :
       ((NextResolve(i) \/ PrevResolve(i)) /\ TurnDocs(reads[i]) = <<>>)
         => /\ UNCHANGED <<data, page, count, pagesNumber, firstVisibleRef,
                           lastVisibleRef, pageStateRef>>
            /\ cLoading' = FALSE]_vars

\* a previous() from page 1 has just completed with an empty result: the
\* page shown is still page 1 with its records
C27_Witness ==
  /\ hook = CUR
  /\ emptyTurn = "prev"
  /\ page = 1
  /\ data # <<>>
  /\ ~cLoading

\* a next() has just completed with an empty result
C27_WitnessNext == hook = CUR /\ emptyTurn = "next" /\ ~cLoading

\* C26: in both pagination hooks loading is true exactly while at least one
\* gateway read issued by the hook is unresolved.
C26_LoadingIffReadInFlight ==
  /\ hook = UCD => (loading <=> inflight # <<>>)
  /\ hook = CUR => (cLoading <=> reads # <<>>)

\* C26 for the cursor hook alone
C26_CursorLoadingIffRead == hook = CUR => (cLoading <=> reads # <<>>)

\* C26, one direction: loading is never stuck at true with no read in flight
C26_LoadingNotStuck ==
  /\ hook = UCD => (loading => inflight # <<>>)
  /\ hook = CUR => (cLoading => reads # <<>>)

====
